---- MODULE Spec2Model ----
(***************************************************************************)
(* hotcore: a hierarchy of attribute-bag entities kept in Redis, with      *)
(* per-(attribute,value) index sets, parent pointers, children sets and a   *)
(* per-entity watch key for optimistic locking (src/hotcore/model.py).      *)
(*                                                                          *)
(* Strings that the code cuts or concatenates (attribute names, values,     *)
(* index keys) are sequences of one-character strings.  Entity uuids are    *)
(* opaque strings.  A Redis set that is empty is a key that does not exist. *)
(***************************************************************************)
EXTENDS Integers, Sequences, FiniteSets, TLC

\* ---------------------------------------------------------------- bounds
MaxCalls == 3
MaxContendCalls == 5
MaxOverlap == 3
MaxUnionSets == 2

Clients == {"c1", "c2"}
Uuids == {"x", "y"}
ParentUuids == {"root", "", "x"}
\* A null identifier as the key builders format it (f'{prefix}{None}').
NullId == "None"
\* The identifiers a key of the store can be built for: the entities'
\* uuids, the empty string and the formatted null.
StoredIds == Uuids \cup {"", NullId}
ChildrenKeys == ParentUuids \cup StoredIds
AttrNames == {<<"a">>, <<"b">>}
Values == {<<"1">>, <<"2">>}

\* An attribute name and values that hold the separator of index keys.
ColonNames == {<<"a", ":", "b">>}
ColonValues == {<<"b", ":", "c">>, <<"c">>}

\* Python's None as a dictionary value, a missing 'uuid' key, and the nil
\* reply of GET on a key that does not exist.
None == <<"<None>">>
Missing == "<missing>"
Nil == "<nil>"

\* ------------------------------------------------------------ dictionaries
EmptyDict == [k \in {} |-> None]
Dicts(D, R) == UNION {[S -> R] : S \in SUBSET D}
Entities == Dicts(AttrNames, Values)
Changes == Dicts(AttrNames, Values \cup {None})

RECURSIVE KeyList(_)
KeyList(S) ==
    IF S = {} THEN <<>>
    ELSE LET k == CHOOSE x \in S : TRUE IN <<k>> \o KeyList(S \ {k})

RECURSIVE Flatten(_)
Flatten(ss) == IF ss = <<>> THEN <<>> ELSE Head(ss) \o Flatten(Tail(ss))

Dict1(k, v) == [j \in {k} |-> v]
Dict2(k1, v1, k2, v2) == [j \in {k1, k2} |-> IF j = k1 THEN v1 ELSE v2]

\* ------------------------------------------------------------------- keys
INDEX_PREFIX == <<"i", ":">>
get_index_key(attribute, value) == INDEX_PREFIX \o attribute \o <<":">> \o value
IndexKeys == {get_index_key(a, v) : a \in AttrNames \cup ColonNames,
                                     v \in Values \cup ColonValues}

\* ------------------------------------------------------------------ state
VARIABLES
    ent,          \* e:<uuid>  hash of attributes
    idx,          \* i:<attribute>:<value>  set of uuids
    parent,       \* p:<uuid>  string, Nil when the key does not exist
    chl,          \* c:<uuid>  set of uuids
    ver,          \* w:<uuid>  TRUE when the watch key exists
    pc,           \* position of each client in its current call
    call,         \* the call a client is executing
    retry_count,  \* apply/delete: retry_count
    old_entity,   \* apply/delete: snapshot read by hgetall
    parent_uuid,  \* delete: snapshot read by get(parent_key)
    dirty,        \* a watched key was touched since WATCH
    result,       \* outcome of the finished call
    ncalls,       \* number of calls started so far
    created,      \* uuids whose create has committed
    mode,         \* which callers the environment has ("any", "unique", "contend",
                  \* "edge", "find", "colon")
    overlap,      \* history: how many other calls ran during the client's call
    stale,        \* history: an apply/delete committed on the uuid since the snapshot
    effect,       \* history: what the client's committed batch did
    reply,        \* the record the client's finished read returned
    tmp,          \* u:<uuid4>  the union sets of find, each with its expiry flag
    rd            \* the locals of a client's find, get_children or index read

store == <<ent, idx, parent, chl, ver>>
vars == <<ent, idx, parent, chl, ver, pc, call, retry_count, old_entity,
          parent_uuid, dirty, result, ncalls, created, mode, overlap, stale, effect,
          reply, tmp, rd>>

NoReply == [uuid |-> "<none>", attrs |-> EmptyDict]
\* The locals of a read before it starts: the criteria, those still to be
\* looked at, filter_list, the SCAN result, the union set's name and count,
\* the identifiers still to be resolved, the records yielded so far,
\* whether SINTER was issued, and for get_entity_from_index the address
\* given and the members SMEMBERS returned.
NoRead == [kwargs |-> <<>>, todo |-> <<>>, filter_list |-> <<>>,
           matching_keys |-> {}, set_name |-> <<0, 0>>, union_entity_cnt |-> 0,
           members |-> {}, yielded |-> {}, sinter |-> FALSE, n |-> 0,
           index_hit |-> [t |-> "none", k |-> <<>>, p |-> "", u |-> <<0, 0>>],
           index_members |-> {}]
NoCall == [op |-> "none", uuid |-> Missing, parent |-> Nil, data |-> EmptyDict]

\* ------------------------------------------------------- Redis primitives
Store == [ent |-> ent, idx |-> idx, parent |-> parent, chl |-> chl,
          ver |-> ver, touched |-> {}]

HSet(h, m) == [k \in DOMAIN h \cup DOMAIN m |-> IF k \in DOMAIN m THEN m[k] ELSE h[k]]
HDel(h, f) == [k \in DOMAIN h \ {f} |-> h[k]]

Cmd(c, k, a) == [c |-> c, k |-> k, a |-> a]

RedisCmd(s, cmd) ==
    CASE cmd.c = "hset" -> [s EXCEPT !.ent[cmd.k] = HSet(@, cmd.a)]
      [] cmd.c = "hdel" -> [s EXCEPT !.ent[cmd.k] = HDel(@, cmd.a)]
      [] cmd.c = "sadd_index" -> [s EXCEPT !.idx[cmd.k] = @ \cup {cmd.a}]
      [] cmd.c = "srem_index" -> [s EXCEPT !.idx[cmd.k] = @ \ {cmd.a}]
      [] cmd.c = "sadd_children" -> [s EXCEPT !.chl[cmd.k] = @ \cup {cmd.a}]
      [] cmd.c = "srem_children" -> [s EXCEPT !.chl[cmd.k] = @ \ {cmd.a}]
      [] cmd.c = "set_parent" -> [s EXCEPT !.parent[cmd.k] = cmd.a]
      [] cmd.c = "delete_parent" -> [s EXCEPT !.parent[cmd.k] = Nil]
      [] cmd.c = "set_watch" ->
            [s EXCEPT !.ver[cmd.k] = TRUE, !.touched = @ \cup {cmd.k}]
      [] cmd.c = "delete_watch" ->
            [s EXCEPT !.ver[cmd.k] = FALSE,
                      !.touched = IF s.ver[cmd.k] THEN @ \cup {cmd.k} ELSE @]

\* Faulty variant: a pipeline that is cut off after its first command.
RedisExec_first_only(s, cmds) ==
    IF cmds = <<>> THEN s ELSE RedisCmd(s, Head(cmds))

RECURSIVE RedisExec(_, _)
RedisExec(s, cmds) ==
    IF cmds = <<>> THEN s ELSE RedisExec(RedisCmd(s, Head(cmds)), Tail(cmds))

\* Faulty variant: an empty hash is reported as a failure.
get_or_fail(entity_uuid) ==
    IF ent[entity_uuid] = EmptyDict
    THEN [uuid |-> "<ValueError>", attrs |-> EmptyDict]
    ELSE [uuid |-> entity_uuid, attrs |-> ent[entity_uuid]]

\* get(entity_uuid): the hash plus the 'uuid' key.
get(entity_uuid) == [uuid |-> entity_uuid, attrs |-> ent[entity_uuid]]

\* ------------------------------------------------------ EntityRelationship
\* HGETALL of e:<uuid>; an identifier nothing was stored for has no hash.
hgetall(entity_uuid) == IF entity_uuid \in StoredIds THEN ent[entity_uuid] ELSE EmptyDict

NotFound == [uuid |-> "<ValueError>", attrs |-> EmptyDict]

\* get_parent(child_uuid): 'if not parent_uuid' raises ValueError, else the
\* parent's hash plus its uuid.
\* 'not parent_uuid': GET returned None or the empty string.
no_parent(p_uuid) == p_uuid = Nil \/ p_uuid = ""

get_parent(child_uuid) ==
    IF no_parent(parent[child_uuid])
    THEN NotFound
    ELSE [uuid |-> parent[child_uuid], attrs |-> hgetall(parent[child_uuid])]

\* get_children(parent_uuid) in a store no call is writing to.
get_children(p_uuid) == {[uuid |-> child_uuid, attrs |-> hgetall(child_uuid)] :
                            child_uuid \in chl[p_uuid]}

\* ------------------------------------------------------------ EntitySearch
\* The glob match SCAN applies to a key: '*' matches any run of characters,
\* '?' any one character, '[...]' one character of the listed ones (none of
\* them when the list starts with '^'); every other character matches
\* itself.  Ranges and escapes are not used by the patterns below.
ClassEnd(pattern) == CHOOSE i \in 2..Len(pattern) :
                        pattern[i] = "]" /\ \A j \in 2..(i - 1) : pattern[j] # "]"

RECURSIVE glob_match(_, _)
glob_match(pattern, string) ==
    IF pattern = <<>> THEN string = <<>>
    ELSE IF Head(pattern) = "*"
    THEN \/ glob_match(Tail(pattern), string)
         \/ string # <<>> /\ glob_match(pattern, Tail(string))
    ELSE IF string = <<>> THEN FALSE
    ELSE IF Head(pattern) = "?" THEN glob_match(Tail(pattern), Tail(string))
    ELSE IF Head(pattern) = "[" /\ \E i \in 2..Len(pattern) : pattern[i] = "]"
    THEN LET end == ClassEnd(pattern)
             negate == pattern[2] = "^"
             listed == {pattern[j] : j \in (IF negate THEN 3 ELSE 2)..(end - 1)}
         IN /\ (Head(string) \in listed) # negate
            /\ glob_match(SubSeq(pattern, end + 1, Len(pattern)), Tail(string))
    ELSE Head(pattern) = Head(string) /\ glob_match(Tail(pattern), Tail(string))

\* Faulty variant: the scan stops at the first key that matches.
scan_iter_first(index_pattern) ==
    LET matching == {k \in IndexKeys : idx[k] # {} /\ glob_match(index_pattern, k)}
    IN IF matching = {} THEN {} ELSE {CHOOSE k \in matching : TRUE}

\* scan_iter(index_pattern): the keys that exist (a set that is empty is
\* no key) and match the pattern.  Every key that starts with 'i:' is an
\* index key.
scan_iter(index_pattern) ==
    {k \in IndexKeys : idx[k] # {} /\ glob_match(index_pattern, k)}

\* SUNIONSTORE of the matching keys into the set a wildcard criterion is
\* filtered by.
sunionstore(matching_keys) == UNION {idx[k] : k \in matching_keys}

PARENT == <<"p", "a", "r", "e", "n", "t">>

has_wildcard(value) == \E i \in 1..Len(value) : value[i] \in {"*", "?", "["}

\* The set one criterion of find filters by: [found |-> FALSE] is the
\* 'return' of a wildcard criterion that matches no key.
criterion_filter(key, value) ==
    IF key = PARENT THEN [found |-> TRUE, members |-> chl[value]]
    ELSE IF has_wildcard(value)
    THEN LET matching_keys == scan_iter(INDEX_PREFIX \o key \o <<":">> \o value)
         IN IF matching_keys # {} /\ sunionstore(matching_keys) # {}
            THEN [found |-> TRUE, members |-> sunionstore(matching_keys)]
            ELSE [found |-> FALSE, members |-> {}]
    ELSE [found |-> TRUE, members |-> idx[get_index_key(key, value)]]

\* Faulty variant: only the first set of the list is read.
sinter_first(filter_list) == filter_list[1]

\* SINTER of the sets stored at the keys of filter_list.
RECURSIVE sinter(_)
sinter(filter_list) ==
    IF Len(filter_list) = 1 THEN filter_list[1]
    ELSE Head(filter_list) \cap sinter(Tail(filter_list))

\* find(**criteria) in a store no call is writing to.
find(criteria) ==
    LET filters == [i \in 1..Len(KeyList(DOMAIN criteria)) |->
            LET key == KeyList(DOMAIN criteria)[i]
            IN criterion_filter(key, criteria[key])]
        filter_list == [i \in 1..Len(filters) |-> filters[i].members]
    IN IF filter_list = <<>> \/ \E i \in 1..Len(filters) : ~filters[i].found
       THEN {}
       ELSE {get(entity_uuid) : entity_uuid \in sinter(filter_list)}

\* ----------------------------------------------------------- EntityStorage
create_batch(p_uuid, entity_uuid, entity_copy) ==
    <<Cmd("hset", entity_uuid, entity_copy)>>
    \o [i \in 1..Len(KeyList(DOMAIN entity_copy)) |->
          LET key == KeyList(DOMAIN entity_copy)[i]
          IN Cmd("sadd_index", get_index_key(key, entity_copy[key]), entity_uuid)]
    \o <<Cmd("set_parent", entity_uuid, p_uuid)>>
    \o <<Cmd("sadd_children", p_uuid, entity_uuid)>>

\* Faulty variant: the attribute is deleted from the hash but stays in its index.
_remove_entity_attributes_keep_index(entity_uuid, old, keys_to_remove) ==
    Flatten([i \in 1..Len(keys_to_remove) |->
        LET key == keys_to_remove[i] IN
        IF key \in DOMAIN old
        THEN <<Cmd("hdel", entity_uuid, key)>>
        ELSE <<>>])

_remove_entity_attributes(entity_uuid, old, keys_to_remove) ==
    Flatten([i \in 1..Len(keys_to_remove) |->
        LET key == keys_to_remove[i] IN
        IF key \in DOMAIN old
        THEN <<Cmd("hdel", entity_uuid, key),
               Cmd("srem_index", get_index_key(key, old[key]), entity_uuid)>>
        ELSE <<>>])

\* Faulty variant: the old index entry of a changed attribute is left behind.
_update_entity_indexes_keep_old(entity_uuid, old, updates) ==
    IF updates # EmptyDict
    THEN <<Cmd("hset", entity_uuid, updates)>>
         \o [i \in 1..Len(KeyList(DOMAIN updates)) |->
              LET key == KeyList(DOMAIN updates)[i] IN
              Cmd("sadd_index", get_index_key(key, updates[key]), entity_uuid)]
    ELSE <<>>

\* Faulty variant: the old index entry is removed after the new one is added.
_update_entity_indexes_srem_last(entity_uuid, old, updates) ==
    IF updates # EmptyDict
    THEN <<Cmd("hset", entity_uuid, updates)>>
         \o Flatten([i \in 1..Len(KeyList(DOMAIN updates)) |->
              LET key == KeyList(DOMAIN updates)[i] IN
              <<Cmd("sadd_index", get_index_key(key, updates[key]), entity_uuid)>>
              \o (IF key \in DOMAIN old /\ old[key] # None
                  THEN <<Cmd("srem_index", get_index_key(key, old[key]), entity_uuid)>>
                  ELSE <<>>)])
    ELSE <<>>

_update_entity_indexes(entity_uuid, old, updates) ==
    IF updates # EmptyDict
    THEN <<Cmd("hset", entity_uuid, updates)>>
         \o Flatten([i \in 1..Len(KeyList(DOMAIN updates)) |->
              LET key == KeyList(DOMAIN updates)[i] IN
              (IF key \in DOMAIN old /\ old[key] # None
               THEN <<Cmd("srem_index", get_index_key(key, old[key]), entity_uuid)>>
               ELSE <<>>)
              \o <<Cmd("sadd_index", get_index_key(key, updates[key]), entity_uuid)>>])
    ELSE <<>>

\* Faulty variant: every attribute is removed, named by the change or not.
keys_to_remove_every(change) == KeyList(AttrNames \ {k \in DOMAIN change : change[k] # None})

\* Faulty variant: the None values of a change are ignored.
keys_to_remove_none(change) == <<>>

keys_to_remove(change) == KeyList({k \in DOMAIN change : change[k] = None})
updated_values(change) ==
    [k \in {j \in DOMAIN change : change[j] # None} |-> change[k]]

\* Faulty variant: a batch that does not rewrite the watch key.
apply_batch_no_touch(entity_uuid, old, change) ==
    _remove_entity_attributes(entity_uuid, old, keys_to_remove(change))
    \o _update_entity_indexes(entity_uuid, old, updated_values(change))

apply_batch(entity_uuid, old, change) ==
    <<Cmd("set_watch", entity_uuid, "")>>
    \o _remove_entity_attributes(entity_uuid, old, keys_to_remove(change))
    \o _update_entity_indexes(entity_uuid, old, updated_values(change))

\* Faulty variant: the attribute a of every child is deleted as well.
delete_batch_cascade(entity_uuid, old, p_uuid) ==
    <<Cmd("set_watch", entity_uuid, "")>>
    \o _remove_entity_attributes(entity_uuid, old, KeyList(DOMAIN old))
    \o [i \in 1..Len(KeyList(chl[entity_uuid])) |->
           Cmd("hdel", KeyList(chl[entity_uuid])[i], <<"a">>)]
    \o <<Cmd("delete_watch", entity_uuid, ""),
         Cmd("delete_parent", entity_uuid, "")>>

\* Faulty variant: the watch key is left behind.
delete_batch_keep_watch(entity_uuid, old, p_uuid) ==
    <<Cmd("set_watch", entity_uuid, "")>>
    \o _remove_entity_attributes(entity_uuid, old, KeyList(DOMAIN old))
    \o <<Cmd("hdel", entity_uuid, <<"*">>),
         Cmd("delete_parent", entity_uuid, ""),
         Cmd("srem_children", entity_uuid, "*")>>
    \o (IF p_uuid # Nil /\ p_uuid # ""
        THEN <<Cmd("srem_children", p_uuid, entity_uuid)>>
        ELSE <<>>)

delete_batch(entity_uuid, old, p_uuid) ==
    <<Cmd("set_watch", entity_uuid, "")>>
    \o _remove_entity_attributes(entity_uuid, old, KeyList(DOMAIN old))
    \o <<Cmd("hdel", entity_uuid, <<"*">>),
         Cmd("delete_watch", entity_uuid, ""),
         Cmd("delete_parent", entity_uuid, ""),
         Cmd("srem_children", entity_uuid, "*")>>
    \o (IF p_uuid # Nil /\ p_uuid # ""
        THEN <<Cmd("srem_children", p_uuid, entity_uuid)>>
        ELSE <<>>)

\* Faulty variant: a loop that allows one more attempt.
max_retries_more == 2 + 2

max_retries == 3

\* ------------------------------------------------------------------- Init
InitStore ==
    /\ ent = [u \in StoredIds |-> EmptyDict]
    /\ idx = [k \in IndexKeys |-> {}]
    /\ parent = [u \in StoredIds |-> Nil]
    /\ chl = [p \in ChildrenKeys |-> {}]
    /\ ver = [u \in StoredIds |-> FALSE]
    /\ pc = [c \in Clients |-> "idle"]
    /\ call = [c \in Clients |-> NoCall]
    /\ retry_count = [c \in Clients |-> 0]
    /\ old_entity = [c \in Clients |-> EmptyDict]
    /\ parent_uuid = [c \in Clients |-> Nil]
    /\ dirty = [c \in Clients |-> FALSE]
    /\ result = [c \in Clients |-> "none"]
    /\ ncalls = 0
    /\ created = {}
    /\ overlap = [c \in Clients |-> 0]
    /\ stale = [c \in Clients |-> FALSE]
    /\ effect = [c \in Clients |-> {}]
    /\ reply = [c \in Clients |-> NoReply]
    /\ tmp = {}
    /\ rd = [c \in Clients |-> NoRead]

Init == InitStore /\ mode = "any"
InitUnique == InitStore /\ mode = "unique"
InitContend == InitStore /\ mode = "contend"
InitEdge == InitStore /\ mode = "edge"
InitFind == InitStore /\ mode = "find"
InitColon == InitStore /\ mode = "colon"

\* ----------------------------------------------------------------- inputs
\* The calls the environment makes.  "any": every client may make every
\* call.  "unique": identifiers are unique as spec 4.1 assumes (an
\* identifier is created at most once and applied to only once created).
\* "contend": identifiers are unique and the clients contend with apply and
\* delete for the single entity x, once it is created.  "edge": calls
\* whose identifier is absent, null or empty next to calls on the entity x.
\* "find": unique identifiers, a parent x and its child y, and clients that
\* read.  "colon": unique identifiers, attribute names and values that
\* hold ':'.
A == <<"a">>
B == <<"b">>
V1 == <<"1">>
V2 == <<"2">>
AB == <<"a", ":", "b">>
BC == <<"b", ":", "c">>
C == <<"c">>

CreateEntities == {EmptyDict, Dict1(A, V1), Dict2(A, V1, B, V1)}
CreatePlaces == {<<"root", "x">>, <<"root", "y">>, <<"", "y">>, <<"x", "y">>}
ApplyChanges ==
    {EmptyDict, Dict1(A, V1), Dict1(A, V2), Dict1(A, None), Dict1(B, V2),
     Dict1(B, None), Dict2(A, V2, B, None), Dict2(A, None, B, V2)}

UniqueIds == mode \in {"unique", "contend", "find", "colon"}

CallBudget == IF mode = "contend" THEN MaxContendCalls ELSE MaxCalls

CreateInputs ==
    IF mode = "contend"
    THEN {<<"root", "x", Dict2(A, V1, B, V1)>>}
    ELSE IF mode = "edge"
    THEN {<<"root", u, Dict1(A, V1)>> : u \in {Missing, NullId, "", "x"}}
    ELSE IF mode = "find"
    THEN {<<"root", "x", Dict2(A, V1, B, V1)>>, <<"x", "y", Dict1(A, V2)>>}
    ELSE IF mode = "colon"
    THEN {<<"root", "x", Dict1(AB, C)>>, <<"root", "y", Dict1(A, BC)>>}
    ELSE {<<pl[1], pl[2], e>> : pl \in CreatePlaces, e \in CreateEntities}
         \cup {<<"root", Missing, Dict1(A, V1)>>}

ApplyInputs ==
    IF mode = "contend"
    THEN {<<"x", Dict1(A, V2)>>, <<"x", Dict1(B, V2)>>, <<"x", Dict1(A, None)>>}
    ELSE IF mode = "edge"
    THEN {Missing, NullId, "x"} \X {Dict1(A, V2), Dict1(A, None)}
    ELSE IF mode = "find"
    THEN {<<"x", Dict1(A, V2)>>, <<"x", Dict1(B, None)>>}
    ELSE IF mode = "colon"
    THEN {<<"x", Dict1(AB, None)>>, <<"y", Dict1(A, V1)>>}
    ELSE (Uuids \X ApplyChanges) \cup {<<Missing, Dict1(A, V1)>>}

DeleteInputs ==
    IF mode = "contend" THEN {"x"}
    ELSE IF mode = "edge" THEN {Missing, NullId, "x"}
    ELSE IF mode = "find" THEN {"x"}
    ELSE IF mode = "colon" THEN {"x", "y"}
    ELSE Uuids \cup {Missing}

\* The reads a client makes: find without criteria, with one wildcard, with
\* an exact and a wildcard criterion in both orders, with the parent filter
\* and with two wildcards.
FindInputs ==
    {<<>>,
     <<<<A, <<"*">>>>>>,
     <<<<A, V2>>, <<B, <<"?">>>>>>,
     <<<<B, <<"?">>>>, <<A, V2>>>>,
     <<<<PARENT, "root">>, <<A, <<"1", "*">>>>>>,
     <<<<A, <<"*">>>>, <<B, <<"*">>>>>>}

GetChildrenInputs == {"root", "x"}

\* The addresses get_entity_from_index is called with: an index set, a
\* children set and (in GetEntityFromIndex) the union sets that exist.
IndexHitInputs == {get_index_key(A, V1)}
ChildrenHitInputs == {"root"}

\* ---------------------------------------------------------------- helpers
InProgress(d) == pc[d] \in {"hgetall", "get", "exec"}
Snapshotted(d) == pc[d] \in {"get", "exec"}

Min(m, n) == IF m < n THEN m ELSE n

\* Faulty variant: one watch key shared by all entities.
Commit_shared_key(c, s) ==
    /\ ent' = s.ent
    /\ idx' = s.idx
    /\ parent' = s.parent
    /\ chl' = s.chl
    /\ ver' = s.ver
    /\ dirty' = [d \in Clients |->
                   IF d = c THEN FALSE
                   ELSE IF InProgress(d) /\ s.touched # {} THEN TRUE
                   ELSE dirty[d]]

\* Install the store s computed by the MULTI/EXEC of client c.  Every other
\* client that watches a touched watch key becomes dirty.
Commit(c, s) ==
    /\ ent' = s.ent
    /\ idx' = s.idx
    /\ parent' = s.parent
    /\ chl' = s.chl
    /\ ver' = s.ver
    /\ dirty' = [d \in Clients |->
                   IF d = c THEN FALSE
                   ELSE IF InProgress(d) /\ call[d].uuid \in s.touched THEN TRUE
                   ELSE dirty[d]]

\* History of a commit of apply/delete on uuid u by client c.
MarkStale(c, u) ==
    stale' = [d \in Clients |->
                IF d = c THEN FALSE
                ELSE IF Snapshotted(d) /\ call[d].uuid = u THEN TRUE
                ELSE stale[d]]

\* History of a call of client c that goes to the store.
Overlaps(c) ==
    overlap' = [d \in Clients |->
                  IF d = c THEN Cardinality({e \in Clients \ {c} : InProgress(e)})
                  ELSE IF InProgress(d) THEN Min(overlap[d] + 1, MaxOverlap)
                  ELSE overlap[d]]

\* What a finished call leaves behind: which operation on which uuid, and
\* where clients contend for one entity also the arguments, so that a final
\* state can be compared with the calls that produced it.
Returned(cl) ==
    IF mode = "contend" THEN cl ELSE [cl EXCEPT !.data = EmptyDict, !.parent = Nil]

Finish(c, r) ==
    /\ pc' = [pc EXCEPT ![c] = "done"]
    /\ result' = [result EXCEPT ![c] = r]

Forget(c) ==
    /\ call' = [call EXCEPT ![c] = Returned(@)]
    /\ old_entity' = [old_entity EXCEPT ![c] = EmptyDict]
    /\ parent_uuid' = [parent_uuid EXCEPT ![c] = Nil]

ApplyEffect(old, ch) ==
    {t \in {"removed", "changed", "added"} :
        \E k \in DOMAIN ch :
            \/ t = "removed" /\ ch[k] = None /\ k \in DOMAIN old
            \/ t = "changed" /\ ch[k] # None /\ k \in DOMAIN old /\ old[k] # ch[k]
            \/ t = "added" /\ ch[k] # None /\ k \notin DOMAIN old}

DeleteEffect(u, old, p_uuid) ==
    {t \in {"attrs", "linked", "children"} :
        \/ t = "attrs" /\ old # EmptyDict
        \/ t = "linked" /\ p_uuid # Nil
        \/ t = "children" /\ chl[u] # {}}

\* ----------------------------------------------------------------- create
\* One call: validation ('entity.get("uuid") is None' holds for an absent
\* key and for a null value), the batch built on the pipeline, one MULTI/EXEC.
\* hset(entity_key, mapping={}) raises DataError while the batch is built.
CreateWith(c, p, u, e) ==
    /\ pc[c] \in {"idle", "done"}
    /\ ncalls < CallBudget
    /\ UniqueIds => u \notin created
    /\ call' = [call EXCEPT ![c] =
           Returned([op |-> "create", uuid |-> u, parent |-> p, data |-> e])]
    /\ IF u \in {Missing, NullId}
       THEN /\ Finish(c, "TypeError")
            /\ effect' = [effect EXCEPT ![c] = {}]
            /\ overlap' = [overlap EXCEPT ![c] = 0]
            /\ UNCHANGED <<store, dirty, created>>
       ELSE IF e = EmptyDict
       THEN /\ Finish(c, "DataError")
            /\ effect' = [effect EXCEPT ![c] = {}]
            /\ overlap' = [overlap EXCEPT ![c] = 0]
            /\ UNCHANGED <<store, dirty, created>>
       ELSE \/ /\ Commit(c, RedisExec(Store, create_batch(p, u, e)))
               /\ Finish(c, "ok")
               /\ effect' = [effect EXCEPT ![c] = {"created"}]
               /\ Overlaps(c)
               /\ created' = created \cup {u}
            \/ /\ Finish(c, "RedisError")
               /\ effect' = [effect EXCEPT ![c] = {}]
               /\ Overlaps(c)
               /\ UNCHANGED <<store, dirty, created>>
    /\ ncalls' = ncalls + 1
    /\ retry_count' = [retry_count EXCEPT ![c] = 0]
    /\ old_entity' = [old_entity EXCEPT ![c] = EmptyDict]
    /\ parent_uuid' = [parent_uuid EXCEPT ![c] = Nil]
    /\ UNCHANGED <<mode, stale>>
    /\ reply' = [reply EXCEPT ![c] = NoReply]
    /\ rd' = [rd EXCEPT ![c] = NoRead]
    /\ UNCHANGED tmp

Create(c) == \E in \in CreateInputs : CreateWith(c, in[1], in[2], in[3])

\* ------------------------------------------------------------------ apply
\* The call is made: validation, then WATCH of the watch key.
ApplyCall(c) ==
    /\ pc[c] \in {"idle", "done"}
    /\ ncalls < CallBudget
    /\ \E in \in ApplyInputs :
       LET u == in[1]  ch == in[2] IN
         /\ UniqueIds => u \in created \cup {Missing}
         /\ IF u = Missing
            THEN /\ Finish(c, "KeyError")
                 /\ call' = [call EXCEPT ![c] = Returned(
                        [op |-> "apply", uuid |-> u, parent |-> Nil, data |-> ch])]
                 /\ overlap' = [overlap EXCEPT ![c] = 0]
            ELSE /\ pc' = [pc EXCEPT ![c] = "hgetall"]
                 /\ result' = [result EXCEPT ![c] = "none"]
                 /\ call' = [call EXCEPT ![c] =
                        [op |-> "apply", uuid |-> u, parent |-> Nil, data |-> ch]]
                 /\ Overlaps(c)
    /\ ncalls' = ncalls + 1
    /\ retry_count' = [retry_count EXCEPT ![c] = 0]
    /\ old_entity' = [old_entity EXCEPT ![c] = EmptyDict]
    /\ parent_uuid' = [parent_uuid EXCEPT ![c] = Nil]
    /\ dirty' = [dirty EXCEPT ![c] = FALSE]
    /\ effect' = [effect EXCEPT ![c] = {}]
    /\ UNCHANGED <<store, created, mode, stale>>
    /\ reply' = [reply EXCEPT ![c] = NoReply]
    /\ rd' = [rd EXCEPT ![c] = NoRead]
    /\ UNCHANGED tmp

ApplyHgetall(c) ==
    /\ pc[c] = "hgetall"
    /\ call[c].op = "apply"
    /\ old_entity' = [old_entity EXCEPT ![c] = ent[call[c].uuid]]
    /\ pc' = [pc EXCEPT ![c] = "exec"]
    /\ stale' = [stale EXCEPT ![c] = FALSE]
    /\ UNCHANGED <<store, call, retry_count, parent_uuid, dirty, result,
                   ncalls, created, mode, reply, tmp, rd, overlap, effect>>

\* execute(): the queued commands are encoded and sent as one MULTI/EXEC.
\* A null uuid queued as the member of an SADD cannot be encoded: execute
\* raises DataError and nothing is sent.
ApplyExec(c) ==
    /\ pc[c] = "exec"
    /\ call[c].op = "apply"
    /\ ~dirty[c]
    /\ IF call[c].uuid = NullId /\ updated_values(call[c].data) # EmptyDict
       THEN /\ Finish(c, "DataError")
            /\ stale' = [stale EXCEPT ![c] = FALSE]
            /\ UNCHANGED <<store, dirty, effect>>
       ELSE /\ Commit(c, RedisExec(Store,
                    apply_batch(call[c].uuid, old_entity[c], call[c].data)))
            /\ MarkStale(c, call[c].uuid)
            /\ effect' = [effect EXCEPT ![c] = ApplyEffect(old_entity[c], call[c].data)]
            /\ Finish(c, "ok")
    /\ Forget(c)
    /\ UNCHANGED <<retry_count, ncalls, created, mode, reply, tmp, rd, overlap>>

\* Faulty variant: a loop that gives up at the first WatchError.
ApplyWatchError_no_retry(c) ==
    /\ pc[c] = "exec"
    /\ call[c].op = "apply"
    /\ dirty[c]
    /\ retry_count' = [retry_count EXCEPT ![c] = @ + 1]
    /\ dirty' = [dirty EXCEPT ![c] = FALSE]
    /\ stale' = [stale EXCEPT ![c] = FALSE]
    /\ Finish(c, "WatchError")
    /\ Forget(c)
    /\ UNCHANGED <<store, ncalls, created, mode, reply, tmp, rd, overlap, effect>>

\* Faulty variant: the next attempt reuses the snapshot of the failed one.
ApplyWatchError_keep_snapshot(c) ==
    /\ pc[c] = "exec"
    /\ call[c].op = "apply"
    /\ dirty[c]
    /\ retry_count' = [retry_count EXCEPT ![c] = @ + 1]
    /\ dirty' = [dirty EXCEPT ![c] = FALSE]
    /\ IF retry_count[c] + 1 >= max_retries
       THEN /\ Finish(c, "WatchError")
            /\ Forget(c)
            /\ stale' = [stale EXCEPT ![c] = FALSE]
       ELSE UNCHANGED <<pc, old_entity, result, call, parent_uuid, stale>>
    /\ UNCHANGED <<store, ncalls, created, mode, reply, tmp, rd, overlap, effect>>

\* EXEC fails on the touched watch key; the loop either gives up or
\* issues WATCH again.
ApplyWatchError(c) ==
    /\ pc[c] = "exec"
    /\ call[c].op = "apply"
    /\ dirty[c]
    /\ retry_count' = [retry_count EXCEPT ![c] = @ + 1]
    /\ dirty' = [dirty EXCEPT ![c] = FALSE]
    /\ stale' = [stale EXCEPT ![c] = FALSE]
    /\ IF retry_count[c] + 1 >= max_retries
       THEN /\ Finish(c, "WatchError")
            /\ Forget(c)
       ELSE /\ pc' = [pc EXCEPT ![c] = "hgetall"]
            /\ old_entity' = [old_entity EXCEPT ![c] = EmptyDict]
            /\ UNCHANGED <<result, call, parent_uuid>>
    /\ UNCHANGED <<store, ncalls, created, mode, reply, tmp, rd, overlap, effect>>

\* ----------------------------------------------------------------- delete
DeleteCall(c) ==
    /\ pc[c] \in {"idle", "done"}
    /\ ncalls < CallBudget
    /\ \E u \in DeleteInputs :
         /\ mode = "contend" => u \in created
         /\ call' = [call EXCEPT ![c] =
                        [op |-> "delete", uuid |-> u, parent |-> Nil, data |-> EmptyDict]]
         /\ IF u = Missing
            THEN /\ Finish(c, "KeyError")
                 /\ overlap' = [overlap EXCEPT ![c] = 0]
            ELSE /\ pc' = [pc EXCEPT ![c] = "hgetall"]
                 /\ result' = [result EXCEPT ![c] = "none"]
                 /\ Overlaps(c)
    /\ ncalls' = ncalls + 1
    /\ retry_count' = [retry_count EXCEPT ![c] = 0]
    /\ old_entity' = [old_entity EXCEPT ![c] = EmptyDict]
    /\ parent_uuid' = [parent_uuid EXCEPT ![c] = Nil]
    /\ dirty' = [dirty EXCEPT ![c] = FALSE]
    /\ effect' = [effect EXCEPT ![c] = {}]
    /\ UNCHANGED <<store, created, mode, stale>>
    /\ reply' = [reply EXCEPT ![c] = NoReply]
    /\ rd' = [rd EXCEPT ![c] = NoRead]
    /\ UNCHANGED tmp

DeleteHgetall(c) ==
    /\ pc[c] = "hgetall"
    /\ call[c].op = "delete"
    /\ old_entity' = [old_entity EXCEPT ![c] = ent[call[c].uuid]]
    /\ pc' = [pc EXCEPT ![c] = "get"]
    /\ stale' = [stale EXCEPT ![c] = FALSE]
    /\ UNCHANGED <<store, call, retry_count, parent_uuid, dirty, result,
                   ncalls, created, mode, reply, tmp, rd, overlap, effect>>

DeleteGetParent(c) ==
    /\ pc[c] = "get"
    /\ call[c].op = "delete"
    /\ parent_uuid' = [parent_uuid EXCEPT ![c] = parent[call[c].uuid]]
    /\ pc' = [pc EXCEPT ![c] = "exec"]
    /\ UNCHANGED <<store, call, retry_count, old_entity, dirty, result,
                   ncalls, created, mode, reply, tmp, rd, overlap, stale, effect>>

DeleteExec(c) ==
    /\ pc[c] = "exec"
    /\ call[c].op = "delete"
    /\ ~dirty[c]
    /\ Commit(c, RedisExec(Store,
            delete_batch(call[c].uuid, old_entity[c], parent_uuid[c])))
    /\ MarkStale(c, call[c].uuid)
    /\ effect' = [effect EXCEPT ![c] =
                    DeleteEffect(call[c].uuid, old_entity[c], parent_uuid[c])]
    /\ Finish(c, "ok")
    /\ Forget(c)
    /\ UNCHANGED <<retry_count, ncalls, created, mode, reply, tmp, rd, overlap>>

DeleteWatchError(c) ==
    /\ pc[c] = "exec"
    /\ call[c].op = "delete"
    /\ dirty[c]
    /\ retry_count' = [retry_count EXCEPT ![c] = @ + 1]
    /\ dirty' = [dirty EXCEPT ![c] = FALSE]
    /\ stale' = [stale EXCEPT ![c] = FALSE]
    /\ IF retry_count[c] + 1 >= max_retries
       THEN /\ Finish(c, "WatchError")
            /\ Forget(c)
       ELSE /\ pc' = [pc EXCEPT ![c] = "hgetall"]
            /\ old_entity' = [old_entity EXCEPT ![c] = EmptyDict]
            /\ parent_uuid' = [parent_uuid EXCEPT ![c] = Nil]
            /\ UNCHANGED <<result, call>>
    /\ UNCHANGED <<store, ncalls, created, mode, reply, tmp, rd, overlap, effect>>

\* ---------------------------------------------------------------- failure
\* The backing store fails at a round trip of an unfinished apply/delete:
\* the RedisError propagates to the caller and nothing was committed.
RedisError(c) ==
    /\ InProgress(c)
    /\ Finish(c, "RedisError")
    /\ Forget(c)
    /\ dirty' = [dirty EXCEPT ![c] = FALSE]
    /\ stale' = [stale EXCEPT ![c] = FALSE]
    /\ UNCHANGED <<store, retry_count, ncalls, created, mode, reply, tmp, rd, overlap, effect>>

\* ------------------------------------------------------------------ reads
\* get(entity_uuid): one HGETALL; the store may fail.
GetWith(c, u) ==
    /\ pc[c] \in {"idle", "done"}
    /\ ncalls < CallBudget
    /\ call' = [call EXCEPT ![c] =
           [op |-> "get", uuid |-> u, parent |-> Nil, data |-> EmptyDict]]
    /\ \/ Finish(c, "ok") /\ reply' = [reply EXCEPT ![c] = get(u)]
       \/ Finish(c, "RedisError") /\ reply' = [reply EXCEPT ![c] = NoReply]
    /\ rd' = [rd EXCEPT ![c] = NoRead]
    /\ UNCHANGED tmp
    /\ ncalls' = ncalls + 1
    /\ retry_count' = [retry_count EXCEPT ![c] = 0]
    /\ old_entity' = [old_entity EXCEPT ![c] = EmptyDict]
    /\ parent_uuid' = [parent_uuid EXCEPT ![c] = Nil]
    /\ dirty' = [dirty EXCEPT ![c] = FALSE]
    /\ effect' = [effect EXCEPT ![c] = {}]
    /\ overlap' = [overlap EXCEPT ![c] = 0]
    /\ UNCHANGED <<store, created, mode, stale>>

Get(c) == \E u \in Uuids : GetWith(c, u)

\* get_parent(child_uuid): GET of the parent key; a missing or empty
\* value raises ValueError, any other is looked up in a second round trip.
GetParentWith(c, child_uuid) ==
    /\ pc[c] \in {"idle", "done"}
    /\ ncalls < CallBudget
    /\ call' = [call EXCEPT ![c] =
           [op |-> "get_parent", uuid |-> child_uuid, parent |-> Nil, data |-> EmptyDict]]
    /\ \/ /\ no_parent(parent[child_uuid])
          /\ Finish(c, "ValueError")
          /\ parent_uuid' = [parent_uuid EXCEPT ![c] = Nil]
       \/ /\ ~no_parent(parent[child_uuid])
          /\ pc' = [pc EXCEPT ![c] = "parent_hgetall"]
          /\ result' = [result EXCEPT ![c] = "none"]
          /\ parent_uuid' = [parent_uuid EXCEPT ![c] = parent[child_uuid]]
       \/ /\ Finish(c, "RedisError")
          /\ parent_uuid' = [parent_uuid EXCEPT ![c] = Nil]
    /\ reply' = [reply EXCEPT ![c] = NoReply]
    /\ rd' = [rd EXCEPT ![c] = NoRead]
    /\ UNCHANGED tmp
    /\ ncalls' = ncalls + 1
    /\ retry_count' = [retry_count EXCEPT ![c] = 0]
    /\ old_entity' = [old_entity EXCEPT ![c] = EmptyDict]
    /\ dirty' = [dirty EXCEPT ![c] = FALSE]
    /\ effect' = [effect EXCEPT ![c] = {}]
    /\ overlap' = [overlap EXCEPT ![c] = 0]
    /\ UNCHANGED <<store, created, mode, stale>>

GetParent(c) == \E child_uuid \in Uuids : GetParentWith(c, child_uuid)

\* The second round trip of get_parent: HGETALL of the parent's hash.
GetParentHgetall(c) ==
    /\ pc[c] = "parent_hgetall"
    /\ reply' = [reply EXCEPT ![c] =
           [uuid |-> parent_uuid[c], attrs |-> hgetall(parent_uuid[c])]]
    /\ Finish(c, "ok")
    /\ parent_uuid' = [parent_uuid EXCEPT ![c] = Nil]
    /\ UNCHANGED <<store, call, retry_count, old_entity, dirty, ncalls, created,
                   mode, overlap, stale, effect, tmp, rd>>

\* ------------------------------------------------ reads that yield a set
\* A key of filter_list: an index set ("i", the key in k), a children set
\* ("c", the parent in p) or a union set ("u", its name in u).
SetKey(t, x) == [t |-> t,
                 k |-> IF t = "i" THEN x ELSE <<>>,
                 p |-> IF t = "c" THEN x ELSE "",
                 u |-> IF t = "u" THEN x ELSE <<0, 0>>]

\* Faulty variant: only an attribute index is read.
smembers_index_only(key) ==
    IF key.t = "i" /\ key.k \in IndexKeys THEN idx[key.k] ELSE {}

\* SMEMBERS of a key; a key that does not exist is the empty set.
smembers(key) ==
    CASE key.t = "i" -> IF key.k \in IndexKeys THEN idx[key.k] ELSE {}
      [] key.t = "c" -> IF key.p \in ChildrenKeys THEN chl[key.p] ELSE {}
      [] key.t = "u" -> UNION {s.members : s \in {s2 \in tmp : s2.key = key.u}}

\* The criterion takes the wildcard branch of find's loop.
is_wildcard(criterion) == criterion[1] # PARENT /\ has_wildcard(criterion[2])

\* The key the other two branches append to filter_list.
filter_key(criterion) ==
    IF criterion[1] = PARENT
    THEN SetKey("c", criterion[2])
    ELSE SetKey("i", get_index_key(criterion[1], criterion[2]))

\* find's loop over kwargs up to its next store access: criteria on 'parent'
\* and exact criteria only append a key.
RECURSIVE filter_loop(_, _)
filter_loop(todo, filter_list) ==
    IF todo = <<>> \/ is_wildcard(Head(todo))
    THEN [todo |-> todo, filter_list |-> filter_list]
    ELSE filter_loop(Tail(todo), Append(filter_list, filter_key(Head(todo))))

\* What is left of a read's locals when it has returned.
Yielded(r) == [NoRead EXCEPT !.kwargs = r.kwargs, !.yielded = r.yielded,
                             !.sinter = r.sinter, !.index_hit = r.index_hit,
                             !.index_members = r.index_members]

\* The variables a step of a read leaves alone besides the store.
writer_vars == <<call, retry_count, old_entity, parent_uuid, dirty, ncalls,
                 created, mode, overlap, stale, effect, reply>>

\* The variables a read resets when it is called.
BeginRead(c, cl) ==
    /\ pc[c] \in {"idle", "done"}
    /\ ncalls < CallBudget
    /\ call' = [call EXCEPT ![c] = cl]
    /\ ncalls' = ncalls + 1
    /\ retry_count' = [retry_count EXCEPT ![c] = 0]
    /\ old_entity' = [old_entity EXCEPT ![c] = EmptyDict]
    /\ parent_uuid' = [parent_uuid EXCEPT ![c] = Nil]
    /\ dirty' = [dirty EXCEPT ![c] = FALSE]
    /\ effect' = [effect EXCEPT ![c] = {}]
    /\ overlap' = [overlap EXCEPT ![c] = 0]
    /\ reply' = [reply EXCEPT ![c] = NoReply]
    /\ UNCHANGED <<store, created, mode, stale>>

\* Faulty variant: a find without criteria goes on to resolve every uuid.
FindWith_all(c, kwargs) ==
    /\ BeginRead(c, [op |-> "find", uuid |-> Missing, parent |-> Nil, data |-> EmptyDict])
    /\ LET adv == filter_loop(kwargs, <<>>) IN
         /\ pc' = [pc EXCEPT ![c] =
                IF adv.todo # <<>> THEN "find_scan"
                ELSE IF adv.filter_list # <<>> THEN "find_sinter" ELSE "resolve"]
         /\ result' = [result EXCEPT ![c] = "none"]
         /\ rd' = [rd EXCEPT ![c] =
                [NoRead EXCEPT !.kwargs = kwargs, !.todo = adv.todo,
                               !.filter_list = adv.filter_list,
                               !.members = IF kwargs = <<>> THEN Uuids ELSE {},
                               !.n = ncalls + 1]]
    /\ UNCHANGED tmp

\* find(**kwargs) is called: the loop runs up to its first store access.
\* Without criteria filter_list stays empty and find returns at once.
FindWith(c, kwargs) ==
    /\ BeginRead(c, [op |-> "find", uuid |-> Missing, parent |-> Nil, data |-> EmptyDict])
    /\ LET adv == filter_loop(kwargs, <<>>) IN
         IF adv.todo = <<>> /\ adv.filter_list = <<>>
         THEN /\ Finish(c, "ok")
              /\ rd' = [rd EXCEPT ![c] = [NoRead EXCEPT !.kwargs = kwargs]]
         ELSE /\ pc' = [pc EXCEPT ![c] =
                     IF adv.todo = <<>> THEN "find_sinter" ELSE "find_scan"]
              /\ result' = [result EXCEPT ![c] = "none"]
              /\ rd' = [rd EXCEPT ![c] =
                     [NoRead EXCEPT !.kwargs = kwargs, !.todo = adv.todo,
                                    !.filter_list = adv.filter_list,
                                    !.n = ncalls + 1]]
    /\ UNCHANGED tmp

Find(c) == \E kwargs \in FindInputs : FindWith(c, kwargs)

\* Faulty variant: a wildcard criterion that matches no key is skipped.
FindScan_skip(c) ==
    /\ pc[c] = "find_scan"
    /\ LET key == Head(rd[c].todo)[1]
           value == Head(rd[c].todo)[2]
           matching_keys == scan_iter(INDEX_PREFIX \o key \o <<":">> \o value)
           adv == filter_loop(Tail(rd[c].todo), rd[c].filter_list)
       IN IF matching_keys = {}
          THEN IF adv.todo = <<>> /\ adv.filter_list = <<>>
               THEN /\ Finish(c, "ok")
                    /\ rd' = [rd EXCEPT ![c] = Yielded(@)]
               ELSE /\ pc' = [pc EXCEPT ![c] =
                           IF adv.todo = <<>> THEN "find_sinter" ELSE "find_scan"]
                    /\ rd' = [rd EXCEPT ![c] =
                           [@ EXCEPT !.todo = adv.todo,
                                     !.filter_list = adv.filter_list]]
                    /\ UNCHANGED result
          ELSE /\ pc' = [pc EXCEPT ![c] = "find_union"]
               /\ rd' = [rd EXCEPT ![c] =
                      [@ EXCEPT !.matching_keys = matching_keys,
                                !.set_name = <<rd[c].n, Len(rd[c].todo)>>]]
               /\ UNCHANGED result
    /\ UNCHANGED <<store, tmp, writer_vars>>

\* A wildcard criterion: SCAN for the index keys that match.  No key: find
\* returns.  Otherwise the union set gets its name.
FindScan(c) ==
    /\ pc[c] = "find_scan"
    /\ LET key == Head(rd[c].todo)[1]
           value == Head(rd[c].todo)[2]
           matching_keys == scan_iter(INDEX_PREFIX \o key \o <<":">> \o value)
       IN IF matching_keys = {}
          THEN /\ Finish(c, "ok")
               /\ rd' = [rd EXCEPT ![c] = Yielded(@)]
          ELSE /\ pc' = [pc EXCEPT ![c] = "find_union"]
               /\ rd' = [rd EXCEPT ![c] =
                      [@ EXCEPT !.matching_keys = matching_keys,
                                !.set_name = <<rd[c].n, Len(rd[c].todo)>>]]
               /\ UNCHANGED result
    /\ UNCHANGED <<store, tmp, writer_vars>>

\* Faulty variant: the union is stored over the first matching index key.
FindUnion_into_index(c) ==
    /\ pc[c] = "find_union"
    /\ LET members == sunionstore(rd[c].matching_keys)
           dest == CHOOSE k \in rd[c].matching_keys : TRUE
       IN /\ idx' = [idx EXCEPT ![dest] = members]
          /\ rd' = [rd EXCEPT ![c] =
                 [@ EXCEPT !.union_entity_cnt = Cardinality(members)]]
    /\ pc' = [pc EXCEPT ![c] = "find_expire"]
    /\ UNCHANGED <<ent, parent, chl, ver, tmp, result, writer_vars>>

\* SUNIONSTORE of the matching keys as they are now; an empty union stores
\* no key.
FindUnion(c) ==
    /\ pc[c] = "find_union"
    /\ Cardinality(tmp) < MaxUnionSets
    /\ LET members == sunionstore(rd[c].matching_keys) IN
         /\ tmp' = IF members = {} THEN tmp
                   ELSE tmp \cup {[key |-> rd[c].set_name, members |-> members,
                                   expiry |-> FALSE]}
         /\ rd' = [rd EXCEPT ![c] =
                [@ EXCEPT !.union_entity_cnt = Cardinality(members)]]
    /\ pc' = [pc EXCEPT ![c] = "find_expire"]
    /\ UNCHANGED <<store, result, writer_vars>>

\* EXPIRE of the union set, then the test of the count: the set joins
\* filter_list and the loop goes on, or find returns.
FindExpire(c) ==
    /\ pc[c] = "find_expire"
    /\ tmp' = {IF s.key = rd[c].set_name THEN [s EXCEPT !.expiry = TRUE] ELSE s :
                  s \in tmp}
    /\ IF rd[c].union_entity_cnt > 0
       THEN LET adv == filter_loop(Tail(rd[c].todo),
                           Append(rd[c].filter_list, SetKey("u", rd[c].set_name)))
            IN /\ pc' = [pc EXCEPT ![c] =
                      IF adv.todo = <<>> THEN "find_sinter" ELSE "find_scan"]
               /\ rd' = [rd EXCEPT ![c] =
                      [@ EXCEPT !.todo = adv.todo, !.filter_list = adv.filter_list,
                                !.matching_keys = {}, !.union_entity_cnt = 0]]
               /\ UNCHANGED result
       ELSE /\ Finish(c, "ok")
            /\ rd' = [rd EXCEPT ![c] = Yielded(@)]
    /\ UNCHANGED <<store, writer_vars>>

\* SUNIONSTORE or EXPIRE fails: the handler tries to delete the union set
\* (a failure of that is swallowed) and re-raises.
FindUnionError(c) ==
    /\ pc[c] \in {"find_union", "find_expire"}
    /\ \/ tmp' = {s \in tmp : s.key # rd[c].set_name}
       \/ tmp' = tmp
    /\ Finish(c, "RedisError")
    /\ rd' = [rd EXCEPT ![c] = Yielded(@)]
    /\ UNCHANGED <<store, writer_vars>>

\* SINTER of the keys of filter_list.
FindSinter(c) ==
    /\ pc[c] = "find_sinter"
    /\ LET hits == sinter([i \in 1..Len(rd[c].filter_list) |->
                              smembers(rd[c].filter_list[i])])
       IN IF hits = {}
          THEN /\ Finish(c, "ok")
               /\ rd' = [rd EXCEPT ![c] = Yielded([@ EXCEPT !.sinter = TRUE])]
          ELSE /\ pc' = [pc EXCEPT ![c] = "resolve"]
               /\ rd' = [rd EXCEPT ![c] =
                      [@ EXCEPT !.members = hits, !.sinter = TRUE,
                                !.filter_list = <<>>]]
               /\ UNCHANGED result
    /\ UNCHANGED <<store, tmp, writer_vars>>

\* get_children(parent_uuid) is called: SMEMBERS of the children set.
GetChildrenWith(c, p_uuid) ==
    /\ BeginRead(c, [op |-> "get_children", uuid |-> Missing, parent |-> p_uuid,
                     data |-> EmptyDict])
    /\ \/ /\ chl[p_uuid] = {}
          /\ Finish(c, "ok")
          /\ rd' = [rd EXCEPT ![c] = NoRead]
       \/ /\ chl[p_uuid] # {}
          /\ pc' = [pc EXCEPT ![c] = "resolve"]
          /\ result' = [result EXCEPT ![c] = "none"]
          /\ rd' = [rd EXCEPT ![c] = [NoRead EXCEPT !.members = chl[p_uuid]]]
       \/ /\ Finish(c, "RedisError")
          /\ rd' = [rd EXCEPT ![c] = NoRead]
    /\ UNCHANGED tmp

GetChildren(c) == \E p_uuid \in GetChildrenInputs : GetChildrenWith(c, p_uuid)

\* get_entity_from_index(index_hit) is called: SMEMBERS of the key.
GetEntityFromIndexWith(c, index_hit) ==
    /\ BeginRead(c, [op |-> "get_entity_from_index", uuid |-> Missing,
                     parent |-> Nil, data |-> EmptyDict])
    /\ \/ /\ pc' = [pc EXCEPT ![c] =
                 IF smembers(index_hit) = {} THEN "done" ELSE "resolve"]
          /\ result' = [result EXCEPT ![c] =
                 IF smembers(index_hit) = {} THEN "ok" ELSE "none"]
          /\ rd' = [rd EXCEPT ![c] =
                 [NoRead EXCEPT !.members = smembers(index_hit),
                                !.index_hit = index_hit,
                                !.index_members = smembers(index_hit)]]
       \/ /\ Finish(c, "RedisError")
          /\ rd' = [rd EXCEPT ![c] = [NoRead EXCEPT !.index_hit = index_hit]]
    /\ UNCHANGED tmp

GetEntityFromIndex(c) ==
    \/ \E k \in IndexHitInputs : GetEntityFromIndexWith(c, SetKey("i", k))
    \/ \E k \in ChildrenHitInputs : GetEntityFromIndexWith(c, SetKey("c", k))
    \/ \E s \in tmp : GetEntityFromIndexWith(c, SetKey("u", s.key))

\* One turn of the loop that resolves the identifiers: HGETALL of the next
\* one, the record is yielded with its uuid.
Resolve(c) ==
    /\ pc[c] = "resolve"
    /\ \E entity_uuid \in rd[c].members :
         LET rest == rd[c].members \ {entity_uuid}
             entity == [uuid |-> entity_uuid, attrs |-> hgetall(entity_uuid)]
         IN IF rest = {}
            THEN /\ Finish(c, "ok")
                 /\ rd' = [rd EXCEPT ![c] =
                        Yielded([@ EXCEPT !.yielded = @ \cup {entity}])]
            ELSE /\ rd' = [rd EXCEPT ![c] =
                        [@ EXCEPT !.members = rest, !.yielded = @ \cup {entity}]]
                 /\ UNCHANGED <<pc, result>>
    /\ UNCHANGED <<store, tmp, writer_vars>>

\* The store fails at a round trip outside the union handler.
ReadError(c) ==
    /\ pc[c] \in {"find_scan", "find_sinter", "resolve"}
    /\ Finish(c, "RedisError")
    /\ rd' = [rd EXCEPT ![c] = Yielded(@)]
    /\ UNCHANGED <<store, tmp, writer_vars>>

\* The caller stops consuming the generator after a record.
ReadStop(c) ==
    /\ pc[c] = "resolve"
    /\ rd[c].yielded # {}
    /\ Finish(c, "closed")
    /\ rd' = [rd EXCEPT ![c] = Yielded(@)]
    /\ UNCHANGED <<store, tmp, writer_vars>>

\* The store removes a union set whose expiry has passed.
TmpExpire ==
    /\ \E s \in tmp : s.expiry /\ tmp' = tmp \ {s}
    /\ UNCHANGED <<store, pc, result, rd, writer_vars>>

Next ==
    \E c \in Clients :
        \/ Create(c)
        \/ ApplyCall(c)
        \/ ApplyHgetall(c)
        \/ ApplyExec(c)
        \/ ApplyWatchError(c)
        \/ DeleteCall(c)
        \/ DeleteHgetall(c)
        \/ DeleteGetParent(c)
        \/ DeleteExec(c)
        \/ DeleteWatchError(c)
        \/ RedisError(c)

\* The writers together with clients that read.
NextRead ==
    \/ Next
    \/ \E c \in Clients :
        \/ Get(c)
        \/ GetParent(c)
        \/ GetParentHgetall(c)

\* The writers together with every read.
NextFind ==
    \/ NextRead
    \/ TmpExpire
    \/ \E c \in Clients :
        \/ Find(c)
        \/ FindScan(c)
        \/ FindUnion(c)
        \/ FindExpire(c)
        \/ FindUnionError(c)
        \/ FindSinter(c)
        \/ GetChildren(c)
        \/ GetEntityFromIndex(c)
        \/ Resolve(c)
        \/ ReadError(c)
        \/ ReadStop(c)

Spec == Init /\ [][Next]_vars
SpecFind == InitFind /\ [][NextFind]_vars
SpecUnique == InitUnique /\ [][Next]_vars
SpecEdge == InitEdge /\ [][Next]_vars
SpecContend == InitContend /\ [][Next]_vars
SpecRead == InitUnique /\ [][NextRead]_vars
SpecColon == InitColon /\ [][Next]_vars

TypeOK ==
    /\ ent \in [StoredIds -> Dicts(AttrNames \cup ColonNames, Values \cup ColonValues)]
    /\ idx \in [IndexKeys -> SUBSET StoredIds]
    /\ parent \in [StoredIds -> ParentUuids \cup {Nil}]
    /\ chl \in [ChildrenKeys -> SUBSET StoredIds]
    /\ ver \in [StoredIds -> BOOLEAN]
    /\ retry_count \in [Clients -> 0..max_retries]
    /\ \A s \in tmp : s.members \in SUBSET StoredIds \ {{}} /\ s.expiry \in BOOLEAN
    /\ \A c \in Clients : rd[c].members \subseteq StoredIds

\* ================================================================= claims
Holds(u, k, v) == k \in DOMAIN ent[u] /\ ent[u][k] = v
Indexed(u, k, v) == u \in idx[get_index_key(k, v)]
ApplyDone(c) == pc[c] = "done" /\ call[c].op = "apply" /\ result[c] = "ok"
DeleteDone(c) == pc[c] = "done" /\ call[c].op = "delete" /\ result[c] = "ok"
CreateDone(c) == pc[c] = "done" /\ call[c].op = "create" /\ result[c] = "ok"

Unused(u) == ent[u] = EmptyDict /\ parent[u] = Nil /\ \A k \in IndexKeys : u \notin idx[k]

\* C2 -- round trip: for every parent p and every entity e that carries an
\* identifier not used before, create(p, e) returns e (it does not raise
\* unless the store itself fails) and get of the identifier then returns
\* exactly e's attributes plus the identifier.
C2_RoundTrip ==
    [][\A c \in Clients : \A in \in CreateInputs :
          (CreateWith(c, in[1], in[2], in[3]) /\ in[2] # Missing /\ Unused(in[2])
             /\ result'[c] # "RedisError")
          => (result'[c] = "ok" /\ get(in[2])' = [uuid |-> in[2], attrs |-> in[3]])]_vars

Tombstone(u) == [uuid |-> u, attrs |-> EmptyDict]

\* C3 -- delete completeness: when delete(e) commits and no other call ran
\* during it, get(e.uuid) returns the tombstone (uuid only), e.uuid is a
\* member of no index set it was a member of before, and find on an
\* attribute value it held no longer yields it.
C3_DeleteCompleteness ==
    [][\A c \in Clients :
        \A u \in Uuids :
          (DeleteExec(c) /\ overlap[c] = 0 /\ u = call[c].uuid) =>
             /\ get(u)' = Tombstone(u)
             /\ \A k \in IndexKeys : u \in idx[k] => u \notin idx'[k]
             /\ \A a \in AttrNames, v \in Values :
                   Holds(u, a, v) => \A r \in find(Dict1(a, v))' : r.uuid # u]_vars

\* A delete that ran alone has committed on an entity that had attributes.
C3_Witness ==
    \E c \in Clients :
        /\ DeleteDone(c)
        /\ overlap[c] = 0
        /\ "attrs" \in effect[c]
        /\ get(call[c].uuid) = Tombstone(call[c].uuid)

\* C4 -- re-parenting on delete, parent pointers: when delete(e) commits
\* for an entity e with parent g and children c1..cn, every former child's
\* parent pointer equals g afterwards (get_parent(ci) has uuid g).
C4_ReparentPointers ==
    [][\A c \in Clients :
        \A g \in ParentUuids :
          (DeleteExec(c) /\ parent[call[c].uuid] = g) =>
             \A ch \in chl[call[c].uuid] : get_parent(ch)'.uuid = g]_vars

\* C5 -- re-parenting on delete, children sets: when delete(e) commits for
\* an entity e with parent g and children c1..cn, every former child is a
\* member of g's children set afterwards and get_children(g) yields it with
\* its attributes.
C5_ReparentChildren ==
    [][\A c \in Clients :
        \A g \in ParentUuids :
          (DeleteExec(c) /\ parent[call[c].uuid] = g) =>
             \A ch \in chl[call[c].uuid] :
                 /\ ch \in chl'[g]
                 /\ get(ch)' \in get_children(g)']_vars

\* The value get shows for the attributes named by a change: the new value,
\* or no attribute where the change names None.
Shows(u, change) ==
    \A k \in DOMAIN change :
        IF change[k] = None THEN k \notin DOMAIN get(u).attrs
        ELSE k \in DOMAIN get(u).attrs /\ get(u).attrs[k] = change[k]

\* The last calls of c and d were applies on one uuid that ran concurrently
\* with each other and with no other call, c changing only attribute a and
\* d only attribute b, and the backing store stayed available to both.
DisjointPair(c, d) ==
    /\ c # d
    /\ pc[c] = "done" /\ pc[d] = "done"
    /\ call[c].op = "apply" /\ call[d].op = "apply"
    /\ call[c].uuid = call[d].uuid
    /\ DOMAIN call[c].data = {A} /\ DOMAIN call[d].data = {B}
    /\ overlap[c] = 1 /\ overlap[d] = 1
    /\ result[c] # "RedisError" /\ result[d] # "RedisError"

\* C6 -- concurrent disjoint update: when two clients concurrently call
\* apply on the same uuid, one changing only attribute a and the other only
\* attribute b, then under every interleaving both calls return
\* successfully (possibly after a retry), the final get shows both new
\* values, and the indexes of a and of b both match the stored hash.
C6_DisjointUpdate ==
    \A c, d \in Clients :
        DisjointPair(c, d) =>
            /\ result[c] = "ok" /\ result[d] = "ok"
            /\ Shows(call[c].uuid, call[c].data)
            /\ Shows(call[c].uuid, call[d].data)
            /\ \A k \in {A, B}, v \in Values :
                   Holds(call[c].uuid, k, v) <=> Indexed(call[c].uuid, k, v)

\* Two such applies have returned, one of them after a retry.
C6_Witness ==
    \E c, d \in Clients :
        /\ DisjointPair(c, d)
        /\ ApplyDone(c) /\ ApplyDone(d)
        /\ retry_count[c] + retry_count[d] >= 1
        /\ "changed" \in effect[c] /\ "changed" \in effect[d]

\* C7 -- serialization through the watch key: of the apply/delete calls on
\* one uuid that hold a snapshot taken under WATCH, a commit of one makes
\* the EXEC of every other fail (any write to the watch key counts,
\* whatever its value), and the failed call takes a fresh snapshot before
\* its next attempt or gives up with WatchError.  Hence no apply/delete
\* batch commits that was computed from a snapshot another committed
\* apply/delete on the uuid has since changed.
C7_Serialization ==
    [][\A c \in Clients :
          /\ (ApplyExec(c) \/ DeleteExec(c)) => ~stale[c]
          /\ (Snapshotted(c) /\ stale[c]) => dirty[c]
          /\ (ApplyWatchError(c) \/ DeleteWatchError(c)) =>
                 \/ pc'[c] = "hgetall" /\ old_entity'[c] = EmptyDict
                 \/ pc'[c] = "done" /\ result'[c] = "WatchError"]_vars

\* A call has committed on a fresh snapshot after its EXEC had failed on a
\* snapshot another call's commit had changed.
C7_Witness ==
    \E c \in Clients :
        /\ ApplyDone(c) \/ DeleteDone(c)
        /\ retry_count[c] >= 1
        /\ effect[c] # {}

\* A step of the retry loop of c: an EXEC that commits or fails.
Attempt(c) == ApplyExec(c) \/ DeleteExec(c) \/ ApplyWatchError(c) \/ DeleteWatchError(c)
Failed(c) == ApplyWatchError(c) \/ DeleteWatchError(c)

\* C8 -- bounded retry: every apply or delete call ends after at most 3
\* commit attempts.  It returns normally as soon as one attempt commits;
\* when the third attempt fails on the watch key as the two before it, the
\* call raises WatchError, and no step of the call but a commit writes to
\* attributes, indexes or linkage, so none of its changes are in the store.
C8_BoundedRetry ==
    [][\A c \in Clients :
          /\ Attempt(c) => retry_count[c] < 3
          /\ (ApplyExec(c) \/ DeleteExec(c)) =>
                 pc'[c] = "done" /\ result'[c] = "ok"
          /\ Failed(c) =>
                 /\ retry_count'[c] = retry_count[c] + 1
                 /\ store' = store
                 /\ IF retry_count'[c] = 3
                    THEN pc'[c] = "done" /\ result'[c] = "WatchError"
                    ELSE pc'[c] = "hgetall" /\ result'[c] = "none"
          /\ (ApplyHgetall(c) \/ DeleteHgetall(c) \/ DeleteGetParent(c)) =>
                 store' = store
          /\ result'[c] = "WatchError" => retry_count'[c] = 3]_vars

\* A call has raised WatchError after three failed attempts.
C8_Witness ==
    \E c \in Clients :
        /\ pc[c] = "done"
        /\ result[c] = "WatchError"
        /\ retry_count[c] = 3
        /\ call[c].op \in {"apply", "delete"}

\* The permanent structures: attribute hashes, indexes, parent pointers and
\* children sets.
permanent == <<ent, idx, parent, chl>>

\* Holds and Indexed in the state a step leads to.
HoldsNext(u, k, v) == k \in DOMAIN ent'[u] /\ ent'[u][k] = v
IndexedNext(u, k, v) == u \in idx'[get_index_key(k, v)]

\* All effects of the batch of create(p, {uuid: u} + e) are in the store
\* after the step.
CreateAll(p, u, e) ==
    /\ \A k \in DOMAIN e : HoldsNext(u, k, e[k]) /\ IndexedNext(u, k, e[k])
    /\ parent'[u] = p
    /\ u \in chl'[p]

\* All effects of the batch apply computed for change ch from snapshot old.
ApplyAll(u, old, ch) ==
    \A k \in DOMAIN ch :
        IF ch[k] # None
        THEN /\ HoldsNext(u, k, ch[k]) /\ IndexedNext(u, k, ch[k])
             /\ (k \in DOMAIN old /\ old[k] # ch[k]) => ~IndexedNext(u, k, old[k])
        ELSE k \in DOMAIN old => (k \notin DOMAIN ent'[u] /\ ~IndexedNext(u, k, old[k]))

\* All effects of the batch delete computed from snapshot old and parent
\* pointer p_uuid.
DeleteAll(u, old, p_uuid) ==
    /\ \A k \in DOMAIN old : k \notin DOMAIN ent'[u] /\ ~IndexedNext(u, k, old[k])
    /\ parent'[u] = Nil
    /\ p_uuid \notin {Nil, ""} => u \notin chl'[p_uuid]

\* C9 -- all-or-nothing mutation: between any two reachable states, also
\* those between two round trips of calls in progress and those a failed or
\* abandoned call leaves, the permanent structures either do not differ or
\* differ by one step in which a call returns successfully and all effects
\* of its batch are in the store; a step in which attributes change is a
\* step in which the batch's index changes happen, and the reverse.
C9_AllOrNothing ==
    [][\/ permanent' = permanent
       \/ \E c \in Clients :
            \/ /\ ApplyExec(c)
               /\ ApplyAll(call[c].uuid, old_entity[c], call[c].data)
            \/ /\ DeleteExec(c)
               /\ DeleteAll(call[c].uuid, old_entity[c], parent_uuid[c])
            \/ \E in \in CreateInputs :
                 /\ CreateWith(c, in[1], in[2], in[3])
                 /\ result'[c] = "ok"
                 /\ CreateAll(in[1], in[2], in[3])]_vars

\* An apply has failed on the backing store after an earlier attempt, and
\* the entity it named holds attributes.
C9_Witness ==
    \E c \in Clients :
        /\ pc[c] = "done"
        /\ call[c].op = "apply"
        /\ result[c] = "RedisError"
        /\ retry_count[c] >= 1
        /\ ent[call[c].uuid] # EmptyDict

\* C10 -- attribute deletion via apply: for an entity u that holds k = v,
\* when an apply on u whose change names k with None commits, get(u) has no
\* attribute k afterwards, u is not a member of the index set of (k, v) and
\* find(k = v) does not yield u; when k was the only attribute of u and the
\* change names nothing else, get(u) returns the uuid only.
C10_AttributeDeletion ==
    [][\A c \in Clients : \A u \in Uuids, k \in AttrNames, v \in Values :
          (/\ ApplyExec(c)
           /\ u = call[c].uuid
           /\ Holds(u, k, v)
           /\ k \in DOMAIN call[c].data
           /\ call[c].data[k] = None) =>
              /\ k \notin DOMAIN get(u)'.attrs
              /\ ~IndexedNext(u, k, v)
              /\ \A r \in find(Dict1(k, v))' : r.uuid # u
              /\ (DOMAIN ent[u] = {k} /\ DOMAIN call[c].data = {k}) =>
                     get(u)' = Tombstone(u)]_vars

\* An apply has committed that removed an attribute the entity held, and
\* the entity holds no attribute now.
C10_Witness ==
    \E c \in Clients :
        /\ ApplyDone(c)
        /\ "removed" \in effect[c]
        /\ get(call[c].uuid) = Tombstone(call[c].uuid)
        /\ call[c].uuid \in created

\* C11 -- create links the hierarchy: when create(p, e) commits, the parent
\* pointer of e's uuid equals p and the uuid is a member of p's children
\* set, so get_parent of the uuid has uuid p and get_children(p) yields e;
\* this holds whether p is "root", an entity with attributes or an
\* identifier nothing is stored for.
C11_CreateLinks ==
    [][\A c \in Clients : \A in \in CreateInputs :
          (CreateWith(c, in[1], in[2], in[3]) /\ result'[c] = "ok") =>
             /\ parent'[in[2]] = in[1]
             /\ in[2] \in chl'[in[1]]
             /\ get_parent(in[2])'.uuid = in[1]
             /\ [uuid |-> in[2], attrs |-> in[3]] \in get_children(in[1])']_vars

\* No call is between two of its round trips.
Quiescent == \A c \in Clients : ~InProgress(c)

\* Criteria that name attributes with values free of glob metacharacters.
ExactCriteria == Entities \ {EmptyDict}

Satisfies(u, criteria) == \A k \in DOMAIN criteria : Holds(u, k, criteria[k])

WildPatterns == {<<"*">>, <<"?">>, <<"1", "*">>, <<"[", "1", "]">>,
                 <<"[", "^", "1", "]">>, <<"?", "?">>}

PointsTo(p) == {u \in Uuids : parent[u] = p}

\* C14 -- parent filter in find: find(parent = p) yields exactly the
\* entities whose parent pointer equals p, and find(parent = p, k = v)
\* exactly those of them that hold k = v; 'parent' is filtered by the
\* children set of p and never looked up as an attribute index.
C14_ParentFilter ==
    Quiescent =>
        \A p \in ChildrenKeys :
            /\ find(Dict1(PARENT, p)) = {get(u) : u \in PointsTo(p)}
            /\ \A k \in AttrNames, v \in Values :
                   find(Dict2(PARENT, p, k, v)) =
                       {get(u) : u \in {w \in PointsTo(p) : Holds(w, k, v)}}

\* C15 -- delete clears the deleted entity's own children set: when
\* delete(e) commits, the children set of e's uuid is empty afterwards and
\* get_children of it yields nothing, whatever members it had.
C15_DeleteClearsChildren ==
    [][\A c \in Clients : \A u \in Uuids :
          (DeleteExec(c) /\ u = call[c].uuid) =>
              chl'[u] = {} /\ get_children(u)' = {}]_vars

\* C16 -- delete removes the entity's own linkage: when delete(e) commits,
\* no parent pointer is stored for e's uuid afterwards (get_parent raises
\* ValueError), no watch key exists for it, and the uuid is not a member of
\* the children set of the parent it had.
C16_DeleteUnlinks ==
    [][\A c \in Clients : \A u \in Uuids, g \in ParentUuids \cup {Nil} :
          (DeleteExec(c) /\ u = call[c].uuid /\ parent[u] = g) =>
              /\ parent'[u] = Nil
              /\ get_parent(u)' = NotFound
              /\ ~ver'[u]
              /\ g # Nil => u \notin chl'[g]]_vars

\* C17 -- adjacency: in every reachable state, for all identifiers ch and
\* p, ch is a member of p's children set exactly when the parent pointer of
\* ch equals p.
C17_Adjacency ==
    \A ch \in Uuids, p \in ChildrenKeys : ch \in chl[p] <=> parent[ch] = p

\* C18 -- single parent: in every reachable state every identifier with a
\* non-empty stored hash has a parent pointer stored for it (one string
\* key, hence exactly one pointer).
C18_SingleParent ==
    \A u \in Uuids : ent[u] # EmptyDict => parent[u] # Nil

\* C19 -- get tombstone convention: get of an identifier with no stored
\* attributes does not fail (the store being available); it returns a
\* record with the uuid only, and get changes nothing in the store.
C19_GetTombstone ==
    [][\A c \in Clients : \A u \in Uuids :
          (GetWith(c, u) /\ ent[u] = EmptyDict /\ result'[c] # "RedisError") =>
              /\ result'[c] = "ok"
              /\ reply'[c] = Tombstone(u)
              /\ store' = store]_vars

\* A get of an entity that was created and deleted has returned the uuid
\* only.
C19_Witness ==
    \E c \in Clients :
        /\ pc[c] = "done"
        /\ call[c].op = "get"
        /\ result[c] = "ok"
        /\ reply[c] = Tombstone(call[c].uuid)
        /\ call[c].uuid \in created

\* C20 -- get_parent NotFound: get_parent(ch) raises ValueError when no
\* parent pointer is stored for ch and only then; whenever a pointer is
\* stored, whatever its value, get_parent(ch) does not raise it.
C20_GetParentNotFound ==
    [][\A c \in Clients : \A ch \in Uuids :
          (GetParentWith(c, ch) /\ result'[c] # "RedisError") =>
              (result'[c] = "ValueError" <=> parent[ch] = Nil)]_vars

\* What get returns for identifier p in the current state: the stored
\* attributes with the uuid, the uuid alone for an identifier without a hash.
GetRecord(p) ==
    IF p \in StoredIds THEN get(p) ELSE [uuid |-> p, attrs |-> EmptyDict]

\* C21 -- get_parent result: when the parent pointer of ch is p,
\* get_parent(ch) goes on to look p up and returns the record get(p) would
\* return: p's stored attributes plus the uuid p, or the uuid p alone when
\* p has no stored attributes.
C21_GetParentResult ==
    [][\A c \in Clients : \A p \in ParentUuids :
          /\ \A ch \in Uuids :
                (GetParentWith(c, ch) /\ parent[ch] = p /\ result'[c] # "RedisError") =>
                    /\ pc'[c] = "parent_hgetall"
                    /\ parent_uuid'[c] = p
          /\ (GetParentHgetall(c) /\ parent_uuid[c] = p) =>
                    /\ result'[c] = "ok"
                    /\ reply'[c] = GetRecord(p)]_vars

\* C22 -- get_children: in a quiescent store get_children(p) yields exactly
\* one record per entity whose parent pointer is p, the record get returns
\* for it (the uuid alone when it has no attributes); it yields nothing
\* when no entity points to p, and never an entity whose pointer is not p.
C22_GetChildren ==
    Quiescent =>
        \A p \in ChildrenKeys :
            get_children(p) = {get(u) : u \in PointsTo(p)}

\* C23 -- create rejects a missing identifier: create(p, e) with an entity
\* that has no 'uuid' key, a null uuid or an empty uuid fails with TypeError
\* before any store access and leaves every store structure unchanged.
C23_CreateRejects ==
    [][\A c \in Clients : \A in \in CreateInputs :
          (CreateWith(c, in[1], in[2], in[3]) /\ in[2] \in {Missing, NullId, ""}) =>
              /\ result'[c] = "TypeError"
              /\ store' = store]_vars

\* C24 -- apply and delete reject a missing identifier: given a mapping
\* without the 'uuid' key or with a null uuid, the call fails with KeyError
\* before it watches the watch key or touches the store, and every store
\* structure is unchanged.
C24_ApplyDeleteReject ==
    [][\A c \in Clients :
          ((ApplyCall(c) \/ DeleteCall(c)) /\ call'[c].uuid \in {Missing, NullId}) =>
              /\ result'[c] = "KeyError"
              /\ pc'[c] = "done"
              /\ store' = store]_vars

FindDone(c) == pc[c] = "done" /\ call[c].op = "find" /\ result[c] = "ok"

\* C25 -- unconstrained find is refused: find() without criteria returns at
\* once without yielding a record (never all entities) and writes nothing
\* to the store.
C25_UnconstrainedFind ==
    [][\A c \in Clients :
          FindWith(c, <<>>) =>
              /\ pc'[c] = "done"
              /\ result'[c] = "ok"
              /\ rd'[c].yielded = {}
              /\ store' = store
              /\ tmp' = tmp]_vars

\* A find without criteria has returned nothing from a store that holds an
\* entity.
C25_Witness ==
    \E c \in Clients :
        /\ FindDone(c)
        /\ rd[c].kwargs = <<>>
        /\ rd[c].yielded = {}
        /\ ent["x"] # EmptyDict

\* C26 -- ephemeral union sets never lack an expiry: in every reachable
\* state, the states between the store steps of a wildcard find and those
\* after a failed or abandoned find included, every union set that exists
\* carries an expiry (so the store removes it in the end).
C26_UnionSetsExpire == \A s \in tmp : s.expiry

\* A step of a read operation of client c.
ReadStep(c) ==
    \/ Get(c) \/ GetParent(c) \/ GetParentHgetall(c)
    \/ Find(c) \/ FindScan(c) \/ FindUnion(c) \/ FindExpire(c)
    \/ FindUnionError(c) \/ FindSinter(c)
    \/ GetChildren(c) \/ GetEntityFromIndex(c)
    \/ Resolve(c) \/ ReadError(c) \/ ReadStop(c)

\* Union set s is in the store after the step as it was before, but for
\* its expiry.
Kept(s) == \E s2 \in tmp' : s2.key = s.key /\ s2.members = s.members

\* C29 as stated -- read operations are read-only on permanent state: no
\* step of get, get_children, get_parent, get_entity_from_index or find
\* changes a hash, an index set, a parent pointer, a children set or a
\* watch key, and the only writes are find's creation and expiry of union
\* sets (no union set is deleted or changed by a read).
C29_ReadOnly_Stated ==
    [][\A c \in Clients :
          ReadStep(c) =>
              /\ store' = store
              /\ \A s \in tmp : Kept(s)]_vars

\* C29 amended -- as stated, but for one more write: when the union or
\* expiry step of a wildcard criterion fails, find deletes the union set
\* that criterion created.
C29_ReadOnly ==
    [][\A c \in Clients :
          ReadStep(c) =>
              /\ store' = store
              /\ \A s \in tmp :
                    Kept(s) \/ (FindUnionError(c) /\ s.key = rd[c].set_name)]_vars

\* A find has created a union set, intersected and yielded a record.
C29_Witness ==
    \E c \in Clients :
        /\ FindDone(c)
        /\ rd[c].sinter
        /\ rd[c].yielded # {}
        /\ tmp # {}

\* The wildcard criterion find is looking at matches no index key.
NoMatch(c) ==
    /\ pc[c] = "find_scan"
    /\ scan_iter(INDEX_PREFIX \o Head(rd[c].todo)[1] \o <<":">>
                 \o Head(rd[c].todo)[2]) = {}

\* C30 -- wildcard short-circuit: when a wildcard criterion of a find
\* matches no index key, or the union of the matched sets is empty, the
\* find returns without a record, whatever the other criteria and their
\* order, and without having issued SINTER.
C30_WildcardShortCircuit ==
    [][\A c \in Clients :
          (\/ FindScan(c) /\ NoMatch(c)
           \/ FindExpire(c) /\ rd[c].union_entity_cnt = 0) =>
              /\ pc'[c] = "done"
              /\ result'[c] = "ok"
              /\ rd'[c].yielded = {}
              /\ ~rd'[c].sinter]_vars

\* A find with an exact criterion that an entity satisfies and a wildcard
\* criterion that matches nothing has returned without a record and
\* without SINTER, in either order of the two.
C30_Witness ==
    \E c, d \in Clients :
        /\ FindDone(c) /\ FindDone(d)
        /\ rd[c].kwargs = <<<<A, V2>>, <<B, <<"?">>>>>>
        /\ rd[d].kwargs = <<<<B, <<"?">>>>, <<A, V2>>>>
        /\ rd[c].yielded = {} /\ rd[d].yielded = {}
        /\ ~rd[c].sinter /\ ~rd[d].sinter
        /\ idx[get_index_key(A, V2)] # {}

\* C27 -- frame of apply: a committed apply(change) on X leaves unchanged
\* every attribute of X that the change does not name, with X's membership
\* in the index sets of those attributes, every parent pointer, every
\* children set, and the hash, index membership and watch key of every
\* other identifier.
C27_ApplyFrame ==
    [][\A c \in Clients :
          (ApplyExec(c) /\ result'[c] = "ok") =>
              /\ \A k \in AttrNames \ DOMAIN call[c].data :
                    /\ k \in DOMAIN ent'[call[c].uuid] <=> k \in DOMAIN ent[call[c].uuid]
                    /\ k \in DOMAIN ent[call[c].uuid] =>
                           ent'[call[c].uuid][k] = ent[call[c].uuid][k]
                    /\ \A v \in Values :
                           call[c].uuid \in idx'[get_index_key(k, v)]
                               <=> call[c].uuid \in idx[get_index_key(k, v)]
              /\ parent' = parent
              /\ chl' = chl
              /\ \A w \in StoredIds \ {call[c].uuid} :
                    /\ ent'[w] = ent[w]
                    /\ ver'[w] = ver[w]
                    /\ \A key \in IndexKeys : w \in idx'[key] <=> w \in idx[key]]_vars

\* An apply has changed one attribute of an entity that holds two, while
\* another entity is stored.
C27_Witness ==
    \E c \in Clients :
        /\ ApplyDone(c)
        /\ "changed" \in effect[c]
        /\ Cardinality(DOMAIN ent[call[c].uuid]) = 2
        /\ \E w \in Uuids \ {call[c].uuid} : ent[w] # EmptyDict

\* C28 -- delete does not cascade to data: a committed delete(e) leaves the
\* hash and every index membership of every other identifier unchanged;
\* each former child of e still has all its attributes and is still
\* yielded by find on each of them.
C28_NoCascade ==
    [][\A c \in Clients :
          DeleteExec(c) =>
              /\ \A w \in StoredIds \ {call[c].uuid} :
                    /\ ent'[w] = ent[w]
                    /\ \A key \in IndexKeys : w \in idx'[key] <=> w \in idx[key]
              /\ \A w \in Uuids, k \in AttrNames, v \in Values :
                    (parent[w] = call[c].uuid /\ Holds(w, k, v)) =>
                        [uuid |-> w, attrs |-> ent[w]] \in find(Dict1(k, v))']_vars

\* A delete of a parent has committed and its child still holds its
\* attributes.
C28_Witness ==
    \E c \in Clients :
        /\ DeleteDone(c)
        /\ "children" \in effect[c]
        /\ \E w \in Uuids : parent[w] = call[c].uuid /\ ent[w] # EmptyDict

\* C31 -- later writer wins on a duplicated identifier: when create commits
\* for an identifier an earlier create has committed for, the stored hash
\* and the index memberships of the identifier are exactly those of the
\* later call, and the identifier is a member of the children set of the
\* later call's parent only.
C31_LaterWriterWins ==
    [][\A c \in Clients : \A in \in CreateInputs :
          (CreateWith(c, in[1], in[2], in[3]) /\ result'[c] = "ok"
              /\ in[2] \in created) =>
              /\ ent'[in[2]] = in[3]
              /\ \A k \in AttrNames, v \in Values :
                    in[2] \in idx'[get_index_key(k, v)]
                        <=> (k \in DOMAIN in[3] /\ in[3][k] = v)
              /\ \A p \in ChildrenKeys : in[2] \in chl'[p] <=> p = in[1]]_vars

\* C32 -- create writes the version token: when create commits, the watch
\* key of the identifier exists afterwards, and every apply/delete on the
\* identifier that is between its WATCH and its EXEC finds the key changed.
C32_CreateWritesToken ==
    [][\A c \in Clients : \A in \in CreateInputs :
          (CreateWith(c, in[1], in[2], in[3]) /\ result'[c] = "ok") =>
              /\ ver'[in[2]]
              /\ \A d \in Clients \ {c} :
                    (InProgress(d) /\ call[d].uuid = in[2]) => dirty'[d]]_vars

\* The members of the set stored at an address, none where no set is.
MembersAt(h) ==
    IF h.t = "i" THEN idx[h.k]
    ELSE IF h.t = "c" THEN chl[h.p]
    ELSE {m \in StoredIds : \E s \in tmp : s.key = h.u /\ m \in s.members}

IndexReadDone(c) ==
    pc[c] = "done" /\ call[c].op = "get_entity_from_index" /\ result[c] = "ok"

\* C33 -- get_entity_from_index: for an attribute index, a children set or
\* a union set, get_entity_from_index(address) reads the members of the set
\* at the address and yields one record per member, the record get returns
\* for it (the uuid alone when it has no hash); for an address without a
\* set it yields nothing.
C33_GetEntityFromIndex ==
    [][\A c \in Clients :
          /\ (GetEntityFromIndex(c) /\ result'[c] # "RedisError") =>
                /\ rd'[c].index_members = MembersAt(rd'[c].index_hit)
                /\ rd'[c].members = MembersAt(rd'[c].index_hit)
                /\ rd'[c].yielded = {}
                /\ MembersAt(rd'[c].index_hit) = {} =>
                       pc'[c] = "done" /\ result'[c] = "ok"
          /\ (Resolve(c) /\ call[c].op = "get_entity_from_index") =>
                /\ \E m \in rd[c].members :
                      rd'[c].yielded = rd[c].yielded \cup {GetRecord(m)}
                /\ pc'[c] = "done" =>
                      /\ result'[c] = "ok"
                      /\ {r.uuid : r \in rd'[c].yielded} = rd[c].index_members
                      /\ Cardinality(rd'[c].yielded) = Cardinality(rd[c].index_members)]_vars

\* A read of a union set has yielded a record for its member.
C33_Witness ==
    \E c \in Clients :
        /\ IndexReadDone(c)
        /\ rd[c].index_hit.t = "u"
        /\ rd[c].yielded # {}
        /\ {r.uuid : r \in rd[c].yielded} = rd[c].index_members

\* The permanent structures after the call is run alone on the present
\* store: it reads the hash (and delete the parent pointer) and commits
\* its batch with no other call in between.
AloneApply(u, ch) ==
    LET s == RedisExec(Store, apply_batch(u, ent[u], ch))
    IN  <<s.ent, s.idx, s.parent, s.chl>>

AloneDelete(u) ==
    LET s == RedisExec(Store, delete_batch(u, ent[u], parent[u]))
    IN  <<s.ent, s.idx, s.parent, s.chl>>

\* C34 -- serializability of apply and delete on one identifier: every
\* commit of a call changes attributes, indexes, parent pointers and
\* children sets exactly as that call run alone on the store of that moment
\* would, and every step that is not a commit (reading the snapshot, a
\* failed attempt, giving up with WatchError, a failure of the store) leaves
\* them unchanged.  Hence the final store is the one produced by the calls
\* that returned successfully, run one after another in commit order.
C34_Serializable ==
    [][\A c \in Clients :
          /\ ApplyExec(c) => permanent' = AloneApply(call[c].uuid, call[c].data)
          /\ DeleteExec(c) => permanent' = AloneDelete(call[c].uuid)
          /\ (Failed(c) \/ RedisError(c) \/ ApplyHgetall(c) \/ DeleteHgetall(c)
                \/ DeleteGetParent(c) \/ ApplyCall(c) \/ DeleteCall(c)) =>
                 permanent' = permanent]_vars

\* An apply has committed at a later attempt and a delete of another
\* client has committed.
C34_Witness ==
    \E c, d \in Clients :
        /\ ApplyDone(c) /\ retry_count[c] >= 1 /\ effect[c] # {}
        /\ DeleteDone(d) /\ "attrs" \in effect[d]

\* The last call of c was an apply or delete that went to the store.
ContendCall(c) == call[c].op \in {"apply", "delete"} /\ call[c].uuid # Missing

\* C35 -- the retry bound suffices for up to three writers: every failed
\* attempt of an apply or delete on an identifier is due to a different
\* apply/delete call on it that ran at the same time, so a call that
\* overlapped with at most two others has failed at most twice, commits by
\* its third attempt at the latest and never raises WatchError.
C35_RetrySuffices ==
    \A c \in Clients :
        ContendCall(c) =>
            /\ retry_count[c] <= overlap[c]
            /\ (pc[c] = "done" /\ result[c] = "WatchError") => overlap[c] >= 3
            /\ (pc[c] = "done" /\ result[c] = "ok" /\ overlap[c] <= 2) =>
                   retry_count[c] <= 2

\* A call that overlapped with two others has committed at its third
\* attempt.
C35_Witness ==
    \E c \in Clients :
        /\ ContendCall(c)
        /\ pc[c] = "done" /\ result[c] = "ok"
        /\ overlap[c] = 2 /\ retry_count[c] = 2

\* Client c commits an apply or delete batch on uuid u in this step.
Commits(c, u) ==
    /\ ApplyExec(c) \/ DeleteExec(c)
    /\ result'[c] = "ok"
    /\ call[c].uuid = u

\* C36 -- no spurious aborts: the watch of a call turns dirty only in a
\* step in which another client commits an apply or delete on the same
\* uuid while the call is between its WATCH and its EXEC; an attempt fails
\* only on a dirty watch, and an attempt whose watch is clean commits
\* its batch and returns.  Hence no create, no call on another uuid and no
\* step that is not a commit turns a watch dirty.
C36_NoSpuriousAbort ==
    [][\A d \in Clients :
          /\ (dirty'[d] /\ ~dirty[d]) =>
                 /\ InProgress(d)
                 /\ \E c \in Clients \ {d} : Commits(c, call[d].uuid)
          /\ Failed(d) => dirty[d]
          /\ (Attempt(d) /\ ~dirty[d]) =>
                 /\ pc'[d] = "done" /\ result'[d] = "ok"
                 /\ ver'[call[d].uuid] = (call[d].op = "apply")]_vars

\* An attempt has failed after a commit of the other client on the uuid, and
\* in the meantime a create and a commit on another uuid left the watch of
\* the next attempt clean.
C36_Witness ==
    \E c, d \in Clients :
        /\ c # d
        /\ pc[d] = "exec" /\ ~dirty[d] /\ retry_count[d] = 1
        /\ pc[c] = "done" /\ result[c] = "ok"
        /\ call[c].op \in {"create", "apply", "delete"}
        /\ call[c].uuid # call[d].uuid

\* The attributes satisfy every attribute criterion of kwargs.
MatchesCriteria(attrs, kwargs) ==
    \A i \in 1..Len(kwargs) :
        LET key == kwargs[i][1]
            value == kwargs[i][2]
        IN \/ key = PARENT
           \/ /\ key \in DOMAIN attrs
              /\ IF has_wildcard(value) THEN glob_match(value, attrs[key])
                 ELSE attrs[key] = value

\* C37 -- every record find yields is consistent with one instant: it is
\* never a tombstone, and its attributes satisfy all the attribute criteria
\* of the call together (as those of an entity that matched all criteria at
\* one instant do), also while apply and delete calls run beside the find.
C37_YieldedConsistent ==
    \A c \in Clients :
        call[c].op = "find" =>
            \A r \in rd[c].yielded :
                /\ r.attrs # EmptyDict
                /\ MatchesCriteria(r.attrs, rd[c].kwargs)

\* The uuid has no parent pointer, no children set and is in no children
\* set.
NoLinkage(u) ==
    /\ parent[u] = Nil
    /\ chl[u] = {}
    /\ \A p \in ChildrenKeys : u \notin chl[p]

\* The commit of a delete on a uuid that has no stored attributes and no
\* linkage.
DeleteOfNothing(c) ==
    /\ DeleteExec(c)
    /\ ent[call[c].uuid] = EmptyDict
    /\ NoLinkage(call[c].uuid)

\* The store after one more delete of u run on the store this step leaves.
DeleteAgain(u) ==
    LET s == RedisExec(Store', delete_batch(u, ent'[u], parent'[u]))
    IN  <<s.ent, s.idx, s.parent, s.chl, s.ver>>

\* C38 as stated -- a delete on a uuid with no stored attributes and no
\* linkage succeeds and leaves every store structure unchanged, the watch
\* keys included -- does not hold.
C38_DeleteIdempotent_Stated ==
    [][\A c \in Clients :
          DeleteOfNothing(c) => result'[c] = "ok" /\ store' = store]_vars

\* C38 -- delete is idempotent and total: a delete on a uuid with no stored
\* attributes and no linkage (never created, or already deleted) succeeds
\* and leaves attributes, indexes, parent pointers and children sets
\* unchanged; of the watch keys it removes the one of the uuid, where an
\* apply had left one.  A delete that ran on a snapshot of the present hash
\* and parent pointer leaves a store that one more delete of the uuid does
\* not change.
C38_DeleteIdempotent ==
    [][\A c \in Clients :
          /\ DeleteOfNothing(c) =>
                /\ result'[c] = "ok"
                /\ permanent' = permanent
                /\ ver' = [ver EXCEPT ![call[c].uuid] = FALSE]
          /\ (/\ DeleteExec(c)
              /\ old_entity[c] = ent[call[c].uuid]
              /\ parent_uuid[c] = parent[call[c].uuid]) =>
                DeleteAgain(call[c].uuid) = store']_vars

\* A delete has committed on a uuid that was created and deleted before.
C38_Witness ==
    \E c \in Clients :
        /\ DeleteDone(c)
        /\ effect[c] = {}
        /\ call[c].uuid \in created
        /\ ent[call[c].uuid] = EmptyDict
        /\ NoLinkage(call[c].uuid)
        /\ ~ver[call[c].uuid]

\* Hashes and index sets after the change is applied once more to u, on
\* the store this step leaves.
ApplyAgain(u, change) ==
    LET s == RedisExec(Store', apply_batch(u, ent'[u], change))
    IN  <<s.ent, s.idx>>

\* C39 -- apply is idempotent: when an apply has committed on a snapshot of
\* the present hash, applying the same change once more leaves every hash
\* and every index set as the first apply left them: an attribute set again
\* to the value it has keeps the uuid in the index of that value, and
\* an attribute removed again is absent already.
C39_ApplyIdempotent ==
    [][\A c \in Clients :
          (ApplyExec(c) /\ result'[c] = "ok" /\ old_entity[c] = ent[call[c].uuid]) =>
              /\ ApplyAgain(call[c].uuid, call[c].data) = <<ent', idx'>>
              /\ \A k \in DOMAIN call[c].data :
                    IF call[c].data[k] = None
                    THEN k \notin DOMAIN ent'[call[c].uuid]
                    ELSE call[c].uuid \in idx'[get_index_key(k, call[c].data[k])]]_vars

\* An apply that set one attribute and removed another has committed.
C39_Witness ==
    \E c \in Clients :
        /\ ApplyDone(c)
        /\ {"removed", "changed"} \subseteq effect[c]

\* The (attribute name, value) pairs entities are created with and looked
\* up by.
Pairs == (AttrNames \cup ColonNames) \X (Values \cup ColonValues)

\* The uuids a wildcard scan for every value of the attribute collects.
ScanOf(attribute) ==
    sunionstore(scan_iter(INDEX_PREFIX \o attribute \o <<":">> \o <<"*">>))

\* C40 -- index addresses are injective: two different (attribute name,
\* value) pairs have different index addresses, also when a name or a value
\* holds ':'.  Hence the set at the address of a pair holds only uuids
\* whose hash holds that pair, and the wildcard scan for an attribute
\* collects only uuids that hold the attribute.
C40_InjectiveAddresses ==
    /\ \A p, q \in Pairs :
          (get_index_key(p[1], p[2]) = get_index_key(q[1], q[2]) /\ p # q) =>
              idx[get_index_key(p[1], p[2])] = {}
    /\ \A u \in Uuids, p \in Pairs :
          u \in idx[get_index_key(p[1], p[2])] => Holds(u, p[1], p[2])
    /\ \A u \in Uuids, k \in AttrNames \cup ColonNames :
          u \in ScanOf(k) => k \in DOMAIN ent[u]

====
